---------------------------- MODULE Spec2Model ----------------------------
(***************************************************************************)
(* Model of app.py: the response cleaner better_clean_generated_code, the  *)
(* streaming accumulation of get_scene_from_groq and the "Generate Video"  *)
(* handler (generate, clean, write generated_scene.py, run manim, report). *)
(*                                                                         *)
(* A Python str is a sequence of one-character strings.  The characters    *)
(* are ASCII: str.lower maps A-Z to a-z, str.strip removes the ASCII       *)
(* whitespace, str.splitlines breaks at "\n", "\r", "\r\n" and "\f".       *)
(* The grave accent is the one character written by name (Backtick).       *)
(***************************************************************************)
EXTENDS Integers, Sequences, FiniteSets, TLC

VARIABLES
    sessions,        \* the browser sessions running the script
    pc,              \* pc[r]: where session r's script run stands
    nchunks,         \* nchunks[r]: chunks consumed from the completion stream
    raw_scene_code,  \* raw_scene_code[r]: get_scene_from_groq's scene_code buffer / result
    scene_code,      \* scene_code[r]: the handler's scene_code (cleaned)
    file,            \* generated_scene.py: [exists, content]
    opened,          \* opened[r]: number of times run r opened the file for writing
    invocations,     \* invocations[r]: file contents the renderer was run on, in order
    rendered,        \* rendered[r]: result of subprocess.run, [returncode, stdout, stderr]
    ui,              \* ui[r]: the st.* elements run r has emitted, in order
    unhandled        \* unhandled[r]: exception that left the script uncaught, or "none"

vars == <<sessions, pc, nchunks, raw_scene_code, scene_code, file, opened,
          invocations, rendered, ui, unhandled>>

----------------------------------------------------------------------------
(* Bounds of the model *)

\* chunks one completion stream delivers at most (single-session runs)
MaxChunks == 4
\* chunks one completion stream delivers at most when two sessions run at once
MaxChunksRace == 1

----------------------------------------------------------------------------
(* Python str operations *)

UpperCase == <<"A","B","C","D","E","F","G","H","I","J","K","L","M",
               "N","O","P","Q","R","S","T","U","V","W","X","Y","Z">>
LowerCase == <<"a","b","c","d","e","f","g","h","i","j","k","l","m",
               "n","o","p","q","r","s","t","u","v","w","x","y","z">>

\* characters str.strip / str.lstrip remove
Whitespace == {" ", "\t", "\n", "\r", "\f"}
\* characters str.splitlines breaks at ("\r\n" counts once)
LineBoundaries == {"\n", "\r", "\f"}

LowerChar(c) ==
    IF \E i \in 1..Len(UpperCase) : UpperCase[i] = c
    THEN LowerCase[CHOOSE i \in 1..Len(UpperCase) : UpperCase[i] = c]
    ELSE c

\* s.lower()
lower(s) == [i \in 1..Len(s) |-> LowerChar(s[i])]

\* s.lstrip()
lstrip(s) ==
    IF \A i \in 1..Len(s) : s[i] \in Whitespace THEN <<>>
    ELSE LET first == CHOOSE i \in 1..Len(s) :
                        /\ s[i] \notin Whitespace
                        /\ \A j \in 1..(i-1) : s[j] \in Whitespace
         IN SubSeq(s, first, Len(s))

\* s.strip()
strip(s) ==
    IF \A i \in 1..Len(s) : s[i] \in Whitespace THEN <<>>
    ELSE LET first == CHOOSE i \in 1..Len(s) :
                        /\ s[i] \notin Whitespace
                        /\ \A j \in 1..(i-1) : s[j] \in Whitespace
             last == CHOOSE i \in 1..Len(s) :
                        /\ s[i] \notin Whitespace
                        /\ \A j \in (i+1)..Len(s) : s[j] \in Whitespace
         IN SubSeq(s, first, last)

\* s.startswith(p)
startswith(s, p) == Len(p) <= Len(s) /\ SubSeq(s, 1, Len(p)) = p

\* p in s
contains(s, p) ==
    \E i \in 1..(Len(s) - Len(p) + 1) : SubSeq(s, i, i + Len(p) - 1) = p

RECURSIVE SplitFrom(_, _, _, _)
SplitFrom(s, i, acc, cur) ==
    IF i > Len(s)
    THEN IF cur = <<>> THEN acc ELSE Append(acc, cur)
    ELSE IF s[i] = "\r" /\ i < Len(s) /\ s[i+1] = "\n"
    THEN SplitFrom(s, i + 2, Append(acc, cur), <<>>)
    ELSE IF s[i] \in LineBoundaries
    THEN SplitFrom(s, i + 1, Append(acc, cur), <<>>)
    ELSE SplitFrom(s, i + 1, acc, Append(cur, s[i]))

\* s.splitlines(): no line for the empty rest after a final boundary
splitlines(s) == SplitFrom(s, 1, <<>>, <<>>)

RECURSIVE join(_, _)
\* sep.join(lines)
join(sep, lines) ==
    IF lines = <<>> THEN <<>>
    ELSE IF Len(lines) = 1 THEN lines[1]
    ELSE lines[1] \o sep \o join(sep, Tail(lines))

----------------------------------------------------------------------------
(* better_clean_generated_code *)

\* the grave accent (U+0060), which a string literal of this notation cannot hold
Backtick == "GRAVE"

Fence == <<Backtick, Backtick, Backtick>>

FillerPhrases ==
    { <<"s","u","r","e">>,
      <<"c","e","r","t","a","i","n","l","y">>,
      <<"h","e","r","e"," ","i","s">>,
      <<"h","e","r","e","'","s">>,
      <<"a","s","s","i","s","t","a","n","t">> }

code_keywords ==
    { <<"f","r","o","m"," ">>,
      <<"i","m","p","o","r","t"," ">>,
      <<"c","l","a","s","s"," ">>,
      <<"d","e","f"," ">> }

\* (mutation) the test is made on line.strip(), without .lower()
IsDroppedCaseSensitive(line) ==
    LET stripped == strip(line)
    IN \/ startswith(stripped, Fence)
       \/ \E phrase \in FillerPhrases : contains(stripped, phrase)

\* (mutation) a filler phrase counts only at the start of the line
IsDroppedPrefixOnly(line) ==
    LET lower_stripped == lower(strip(line))
    IN \/ startswith(lower_stripped, Fence)
       \/ \E phrase \in FillerPhrases : startswith(lower_stripped, phrase)

\* the first loop's test: the line is skipped (continue)
IsDropped(line) ==
    LET lower_stripped == lower(strip(line))
    IN \/ startswith(lower_stripped, Fence)
       \/ \E phrase \in FillerPhrases : contains(lower_stripped, phrase)

RECURSIVE FilterLines(_)
\* cleaned_lines after the first loop
FilterLines(lines) ==
    IF lines = <<>> THEN <<>>
    ELSE IF IsDropped(Head(lines)) THEN FilterLines(Tail(lines))
    ELSE <<Head(lines)>> \o FilterLines(Tail(lines))

\* the second loop's test
IsCodeStart(line) == \E k \in code_keywords : startswith(lstrip(line), k)

\* (mutation) the loop lacks its break: the last code line wins
FirstCodeLineNoBreak(cleaned_lines) ==
    IF \E i \in 1..Len(cleaned_lines) : IsCodeStart(cleaned_lines[i])
    THEN (CHOOSE i \in 1..Len(cleaned_lines) :
            /\ IsCodeStart(cleaned_lines[i])
            /\ \A j \in (i+1)..Len(cleaned_lines) : ~IsCodeStart(cleaned_lines[j])) - 1
    ELSE 0

\* first_code_line after the second loop (Python index, from 0)
FirstCodeLine(cleaned_lines) ==
    IF \E i \in 1..Len(cleaned_lines) : IsCodeStart(cleaned_lines[i])
    THEN (CHOOSE i \in 1..Len(cleaned_lines) :
            /\ IsCodeStart(cleaned_lines[i])
            /\ \A j \in 1..(i-1) : ~IsCodeStart(cleaned_lines[j])) - 1
    ELSE 0

\* (mutation) the slice starts one line late
SliceAfter(seq, start) == SubSeq(seq, start + 2, Len(seq))

\* cleaned_lines[first_code_line:]
SliceFrom(seq, start) == SubSeq(seq, start + 1, Len(seq))

better_clean_generated_code(code) ==
    LET lines == splitlines(code)
        cleaned_lines == FilterLines(lines)
        first_code_line == FirstCodeLine(cleaned_lines)
    IN join(<<"\n">>, SliceFrom(cleaned_lines, first_code_line))

----------------------------------------------------------------------------
(* The environment: prompts, stream chunks, exceptions, renderer results *)

Runs == {1, 2}

\* contents of the "Topic/Concept" text area
Prompts == { <<>>, <<" ", "\n">>, <<"p","i">> }

\* text fragments the completion stream delivers
Fragments ==
    { <<"S","u","r","e">>, Fence, <<"d","e","f"," ">>,
      <<"x">>, <<" ">>, <<"\n">>, <<"\r">> }

\* fragments delivered when two sessions run at once
RaceFragments == { <<"x">>, <<"d","e","f"," ">> }

\* chunk.choices[0].delta.content: a str (possibly empty) or None
Deltas(frags) ==
    { [isNone |-> FALSE, content |-> f] : f \in frags \cup {<<>>} }
      \cup { [isNone |-> TRUE, content |-> <<>>] }

\* str(e) of the exceptions the Groq SDK raises
GroqErrors == { <<"4","0","1">>, <<"t","i","m","e","o","u","t">> }
\* str(e) of the OSError open() raises
OpenErrors == { <<"E","A","C","C","E","S">> }
\* str(e) of the OSError f.write() or the close raises
WriteErrors == { <<"E","N","O","S","P","C">> }
\* OSError subclasses subprocess.run raises when the child cannot be started
LaunchErrors == { "FileNotFoundError", "PermissionError" }
\* captured stdout / stderr of manim
Streams == { <<>>, <<"l","o","g">> }
\* exit statuses of manim
ReturnCodes == { 0, 1 }

\* generated_scene.py before the first run: missing, or left by an earlier run
StaleFiles ==
    { [exists |-> FALSE, content |-> <<>>],
      [exists |-> TRUE,  content |-> <<"o","l","d">>] }

NoResult == [returncode |-> -1, stdout |-> <<>>, stderr |-> <<>>]

\* one st.* call
Element(kind, text, arg) == [kind |-> kind, text |-> text, arg |-> arg]

ChunkLimit == IF Cardinality(sessions) = 1 THEN MaxChunks ELSE MaxChunksRace
Vocabulary == IF Cardinality(sessions) = 1 THEN Fragments ELSE RaceFragments

----------------------------------------------------------------------------
(* The script *)

Start(S) ==
    /\ sessions = S
    /\ pc = [r \in Runs |-> "idle"]
    /\ nchunks = [r \in Runs |-> 0]
    /\ raw_scene_code = [r \in Runs |-> <<>>]
    /\ scene_code = [r \in Runs |-> <<>>]
    /\ file \in StaleFiles
    /\ opened = [r \in Runs |-> 0]
    /\ invocations = [r \in Runs |-> <<>>]
    /\ rendered = [r \in Runs |-> NoResult]
    /\ ui = [r \in Runs |-> <<>>]
    /\ unhandled = [r \in Runs |-> "none"]

Init == Start({1})

InitRace == Start({1, 2})

\* delta.content or ""
ContentOrEmpty(delta) == IF delta.isNone THEN <<>> ELSE delta.content

\* the result of the try block of lines 90-94 for a completed stream
CleanedResponse(raw) == better_clean_generated_code(raw)

\* st.button("Generate Video") pressed: lines 84-88, up to the completion call
Click(r, prompt) ==
    /\ r \in sessions
    /\ pc[r] = "idle"
    /\ IF strip(prompt) = <<>>
       THEN /\ ui' = [ui EXCEPT ![r] = Append(@,
                        Element("error", "Please enter a topic or description to explain.", <<>>))]
            /\ pc' = [pc EXCEPT ![r] = "ended"]
       ELSE /\ ui' = [ui EXCEPT ![r] = Append(@,
                        Element("info", "Generating scene code using the Groq API...", <<>>))]
            /\ pc' = [pc EXCEPT ![r] = "streaming"]
    /\ UNCHANGED <<sessions, nchunks, raw_scene_code, scene_code, file, opened,
                   invocations, rendered, unhandled>>

\* one iteration of "for chunk in completion" (lines 73-74)
Chunk(r, delta) ==
    /\ r \in sessions
    /\ pc[r] = "streaming"
    /\ nchunks[r] < ChunkLimit
    /\ nchunks' = [nchunks EXCEPT ![r] = @ + 1]
    /\ raw_scene_code' = [raw_scene_code EXCEPT ![r] = @ \o ContentOrEmpty(delta)]
    /\ UNCHANGED <<sessions, pc, scene_code, file, opened, invocations, rendered,
                   ui, unhandled>>

\* (mutation) the handler lacks st.stop(): the script goes on to the file
GenerationFailsNoStop(r, e) ==
    /\ r \in sessions
    /\ pc[r] = "streaming"
    /\ ui' = [ui EXCEPT ![r] = Append(@,
                Element("error", "Error generating scene code: ", e))]
    /\ pc' = [pc EXCEPT ![r] = "save"]
    /\ UNCHANGED <<sessions, nchunks, raw_scene_code, scene_code, file, opened,
                   invocations, rendered, unhandled>>

\* the client, the request or the stream raises: lines 95-97
GenerationFails(r, e) ==
    /\ r \in sessions
    /\ pc[r] = "streaming"
    /\ ui' = [ui EXCEPT ![r] = Append(@,
                Element("error", "Error generating scene code: ", e))]
    /\ pc' = [pc EXCEPT ![r] = "stopped"]
    /\ UNCHANGED <<sessions, nchunks, raw_scene_code, scene_code, file, opened,
                   invocations, rendered, unhandled>>

\* the stream ends: lines 75, 93-94 and the expander of lines 100-101
StreamEnds(r) ==
    /\ r \in sessions
    /\ pc[r] = "streaming"
    /\ scene_code' = [scene_code EXCEPT ![r] = CleanedResponse(raw_scene_code[r])]
    /\ ui' = [ui EXCEPT ![r] = @ \o
                << Element("success", "Scene code generated successfully!", <<>>),
                   Element("code", "View Generated Scene Code", scene_code'[r]) >>]
    /\ pc' = [pc EXCEPT ![r] = "save"]
    /\ UNCHANGED <<sessions, nchunks, raw_scene_code, file, opened, invocations,
                   rendered, unhandled>>

\* (mutation) the file is locked from a session's open to the end of its run
OpenFileLocked(r) ==
    /\ r \in sessions
    /\ pc[r] = "save"
    /\ \A o \in sessions \ {r} : pc[o] \notin {"opened", "launch", "rendering"}
    /\ file' = [exists |-> TRUE, content |-> <<>>]
    /\ opened' = [opened EXCEPT ![r] = @ + 1]
    /\ pc' = [pc EXCEPT ![r] = "opened"]
    /\ UNCHANGED <<sessions, nchunks, raw_scene_code, scene_code, invocations,
                   rendered, ui, unhandled>>

\* open(filename, "w") succeeds and truncates the file: line 106
OpenFile(r) ==
    /\ r \in sessions
    /\ pc[r] = "save"
    /\ file' = [exists |-> TRUE, content |-> <<>>]
    /\ opened' = [opened EXCEPT ![r] = @ + 1]
    /\ pc' = [pc EXCEPT ![r] = "opened"]
    /\ UNCHANGED <<sessions, nchunks, raw_scene_code, scene_code, invocations,
                   rendered, ui, unhandled>>

\* open(filename, "w") raises: lines 106, 109-111
OpenFails(r, e) ==
    /\ r \in sessions
    /\ pc[r] = "save"
    /\ ui' = [ui EXCEPT ![r] = Append(@,
                Element("error", "Error writing the scene file: ", e))]
    /\ pc' = [pc EXCEPT ![r] = "stopped"]
    /\ UNCHANGED <<sessions, nchunks, raw_scene_code, scene_code, file, opened,
                   invocations, rendered, unhandled>>

\* (mutation) the raw response is written instead of the cleaned code
WrittenRaw(r) == raw_scene_code[r]

\* what the file holds once run r's write and close have succeeded
WrittenContent(r) == scene_code[r]

\* f.write(scene_code) and the close succeed: lines 107-108, 113.  The text
\* reaches the file in one piece, at the close (it is buffered until then).
WriteFile(r) ==
    /\ r \in sessions
    /\ pc[r] = "opened"
    /\ file' = [exists |-> TRUE, content |-> WrittenContent(r)]
    /\ ui' = [ui EXCEPT ![r] = @ \o
                << Element("success", "Scene code written to file successfully!", <<>>),
                   Element("info", "Rendering video with Manim (this may take a moment)...", <<>>) >>]
    /\ pc' = [pc EXCEPT ![r] = "launch"]
    /\ UNCHANGED <<sessions, nchunks, raw_scene_code, scene_code, opened,
                   invocations, rendered, unhandled>>

\* (mutation) the handler lacks st.stop(): the script goes on to render
WriteFailsNoStop(r, e) ==
    /\ r \in sessions
    /\ pc[r] = "opened"
    /\ \E n \in 0..Len(scene_code[r]) :
          /\ n < Len(scene_code[r]) \/ n = 0
          /\ file' = [exists |-> TRUE, content |-> SubSeq(scene_code[r], 1, n)]
    /\ ui' = [ui EXCEPT ![r] = Append(@,
                Element("error", "Error writing the scene file: ", e))]
    /\ pc' = [pc EXCEPT ![r] = "launch"]
    /\ UNCHANGED <<sessions, nchunks, raw_scene_code, scene_code, opened,
                   invocations, rendered, unhandled>>

\* f.write or the close raises after only some leading characters (possibly
\* none) reached the file: lines 107, 109-111
WriteFails(r, e) ==
    /\ r \in sessions
    /\ pc[r] = "opened"
    /\ \E n \in 0..Len(scene_code[r]) :
          /\ n < Len(scene_code[r]) \/ n = 0
          /\ file' = [exists |-> TRUE, content |-> SubSeq(scene_code[r], 1, n)]
    /\ ui' = [ui EXCEPT ![r] = Append(@,
                Element("error", "Error writing the scene file: ", e))]
    /\ pc' = [pc EXCEPT ![r] = "stopped"]
    /\ UNCHANGED <<sessions, nchunks, raw_scene_code, scene_code, opened,
                   invocations, rendered, unhandled>>

\* what manim reads when it is started on filename
RendererInput(r) == file.content

\* subprocess.run starts manim on generated_scene.py: lines 117-125
RunManim(r) ==
    /\ r \in sessions
    /\ pc[r] = "launch"
    /\ invocations' = [invocations EXCEPT ![r] = Append(@, RendererInput(r))]
    /\ pc' = [pc EXCEPT ![r] = "rendering"]
    /\ UNCHANGED <<sessions, nchunks, raw_scene_code, scene_code, file, opened,
                   rendered, ui, unhandled>>

\* the handlers of the try block of lines 118-131: CalledProcessError only
RenderHandlers == { "CalledProcessError" }

\* subprocess.run cannot start manim (OSError): lines 120-125, 128
LaunchFails(r, e) ==
    /\ r \in sessions
    /\ pc[r] = "launch"
    /\ IF e \in RenderHandlers
       THEN /\ ui' = [ui EXCEPT ![r] = Append(@,
                        Element("error", "Error during video rendering:", <<>>))]
            /\ pc' = [pc EXCEPT ![r] = "ended"]
            /\ UNCHANGED unhandled
       ELSE /\ unhandled' = [unhandled EXCEPT ![r] = e]
            /\ pc' = [pc EXCEPT ![r] = "crashed"]
            /\ UNCHANGED ui
    /\ UNCHANGED <<sessions, nchunks, raw_scene_code, scene_code, file, opened,
                   invocations, rendered>>

\* (mutation) the handler shows e.stdout under both headings
ManimExitsStdoutTwice(r, code, out, err) ==
    /\ r \in sessions
    /\ pc[r] = "rendering"
    /\ rendered' = [rendered EXCEPT ![r] =
                      [returncode |-> code, stdout |-> out, stderr |-> err]]
    /\ IF code = 0
       THEN ui' = [ui EXCEPT ![r] = @ \o
                << Element("success", "Video rendered successfully!", <<>>),
                   Element("text", "Manim output:\n", out) >>]
       ELSE ui' = [ui EXCEPT ![r] = @ \o
                << Element("error", "Error during video rendering:", <<>>),
                   Element("text", "STDOUT:\n", out),
                   Element("text", "STDERR:\n", out) >>]
    /\ pc' = [pc EXCEPT ![r] = "ended"]
    /\ UNCHANGED <<sessions, nchunks, raw_scene_code, scene_code, file, opened,
                   invocations, unhandled>>

\* manim exits; check=True raises CalledProcessError on a non-zero status: lines 120-131
ManimExits(r, code, out, err) ==
    /\ r \in sessions
    /\ pc[r] = "rendering"
    /\ rendered' = [rendered EXCEPT ![r] =
                      [returncode |-> code, stdout |-> out, stderr |-> err]]
    /\ IF code = 0
       THEN ui' = [ui EXCEPT ![r] = @ \o
                << Element("success", "Video rendered successfully!", <<>>),
                   Element("text", "Manim output:\n", out) >>]
       ELSE ui' = [ui EXCEPT ![r] = @ \o
                << Element("error", "Error during video rendering:", <<>>),
                   Element("text", "STDOUT:\n", out),
                   Element("text", "STDERR:\n", err) >>]
    /\ pc' = [pc EXCEPT ![r] = "ended"]
    /\ UNCHANGED <<sessions, nchunks, raw_scene_code, scene_code, file, opened,
                   invocations, unhandled>>

Next ==
    \/ \E r \in Runs, prompt \in Prompts : Click(r, prompt)
    \/ \E r \in Runs, delta \in Deltas(Vocabulary) : Chunk(r, delta)
    \/ \E r \in Runs, e \in GroqErrors : GenerationFails(r, e)
    \/ \E r \in Runs : StreamEnds(r)
    \/ \E r \in Runs : OpenFile(r)
    \/ \E r \in Runs, e \in OpenErrors : OpenFails(r, e)
    \/ \E r \in Runs : WriteFile(r)
    \/ \E r \in Runs, e \in WriteErrors : WriteFails(r, e)
    \/ \E r \in Runs : RunManim(r)
    \/ \E r \in Runs, e \in LaunchErrors : LaunchFails(r, e)
    \/ \E r \in Runs, code \in ReturnCodes, out \in Streams, err \in Streams :
         ManimExits(r, code, out, err)

\* one session: the script runs alone
Spec == Init /\ [][Next]_vars

\* two sessions at once, each running the script in its own thread
SpecRace == InitRace /\ [][Next]_vars

----------------------------------------------------------------------------
(* Vocabulary of the properties *)

\* run r has just cleaned its response: scene_code[r] is the cleaner's result
\* for raw_scene_code[r], and neither changes in the rest of the run
Cleaned(r) == pc[r] = "save"

\* run r emitted an element with this text
Shown(r, text) == \E i \in 1..Len(ui[r]) : ui[r][i].text = text

\* number of elements of run r with this text
Times(r, text) == Cardinality({ i \in 1..Len(ui[r]) : ui[r][i].text = text })

GenerationErrorText == "Error generating scene code: "
WriteErrorText      == "Error writing the scene file: "
RenderErrorText     == "Error during video rendering:"
RenderSuccessText   == "Video rendered successfully!"

\* a fence line or a filler line, as the contract words it
FenceOrFiller(line) ==
    LET t == lower(strip(line))
    IN \/ (Len(t) >= 3 /\ \A i \in 1..3 : t[i] = Backtick)
       \/ \E w \in { <<"s","u","r","e">>, <<"c","e","r","t","a","i","n","l","y">>,
                     <<"h","e","r","e"," ","i","s">>, <<"h","e","r","e","'","s">>,
                     <<"a","s","s","i","s","t","a","n","t">> } :
            \E i \in 1..Len(t) :
               /\ i + Len(w) - 1 <= Len(t)
               /\ \A j \in 1..Len(w) : t[i + j - 1] = w[j]

\* the left-trimmed line begins with "from ", "import ", "class " or "def "
HasCodePrefix(line) ==
    LET t == lstrip(line)
    IN \E w \in { <<"f","r","o","m"," ">>, <<"i","m","p","o","r","t"," ">>,
                  <<"c","l","a","s","s"," ">>, <<"d","e","f"," ">> } :
          /\ Len(w) <= Len(t)
          /\ \A j \in 1..Len(w) : t[j] = w[j]

\* the lines of a text that are neither fence nor filler lines, in order
Retained(text) == SelectSeq(splitlines(text), LAMBDA l : ~FenceOrFiller(l))

\* lines joined with "\n"
RECURSIVE Joined(_)
Joined(lines) ==
    IF lines = <<>> THEN <<>>
    ELSE IF Len(lines) = 1 THEN lines[1]
    ELSE lines[1] \o <<"\n">> \o Joined(Tail(lines))

\* a is b with some elements left out
RECURSIVE IsSubsequence(_, _)
IsSubsequence(a, b) ==
    IF a = <<>> THEN TRUE
    ELSE IF b = <<>> THEN FALSE
    ELSE IF Head(a) = Head(b) THEN IsSubsequence(Tail(a), Tail(b))
    ELSE IsSubsequence(a, Tail(b))

----------------------------------------------------------------------------
(* C1 *)

\* C1: the cleaner returns the filtered lines from the first one with a code
\* prefix through the last, joined with "\n"; with no such line, all of them.
C1_FromFirstCodeLine ==
    \A r \in sessions : Cleaned(r) =>
        LET F == Retained(raw_scene_code[r])
            starts == { i \in 1..Len(F) : HasCodePrefix(F[i]) }
            k == IF starts = {} THEN 1
                 ELSE CHOOSE i \in starts : \A j \in starts : i <= j
        IN scene_code[r] = Joined(SubSeq(F, k, Len(F)))

\* leading prose was trimmed: the first code line is not the first filtered line
C1_Witness ==
    \E r \in sessions :
        /\ Cleaned(r)
        /\ LET F == Retained(raw_scene_code[r])
           IN /\ Len(F) >= 2
              /\ ~HasCodePrefix(F[1])
              /\ \E i \in 2..Len(F) : HasCodePrefix(F[i])

----------------------------------------------------------------------------
(* C2 *)

\* C2: exactly the fence and filler lines are discarded by the filter: the
\* output is a tail of the input lines that are neither, so no output line is
\* a fence or filler line and the output lines are input lines, unmodified
\* and in their input order.
C2_LineFiltering ==
    \A r \in sessions : Cleaned(r) =>
        LET L == splitlines(raw_scene_code[r])
            F == Retained(raw_scene_code[r])
            O == splitlines(scene_code[r])
        IN /\ \E k \in 1..(Len(F) + 1) : scene_code[r] = Joined(SubSeq(F, k, Len(F)))
           /\ \A i \in 1..Len(O) : ~FenceOrFiller(O[i])
           /\ IsSubsequence(O, L)

\* a filler line in upper case behind leading whitespace was discarded and a
\* line after it was kept
C2_Witness ==
    \E r \in sessions :
        /\ Cleaned(r)
        /\ scene_code[r] # <<>>
        /\ LET L == splitlines(raw_scene_code[r])
           IN \E i \in 1..Len(L) :
                /\ FenceOrFiller(L[i])
                /\ strip(L[i]) # L[i]
                /\ lower(L[i]) # L[i]
                /\ i < Len(L)

----------------------------------------------------------------------------
(* C3 *)

\* C3: when every line of the response is a fence or filler line (the empty
\* response included) the cleaner returns the empty string and raises
\* nothing: the run goes on with an empty scene_code and reports no
\* generation error.
C3_OnlyFillerGivesEmpty ==
    \A r \in sessions :
        (/\ Cleaned(r)
         /\ \A i \in 1..Len(splitlines(raw_scene_code[r])) :
               FenceOrFiller(splitlines(raw_scene_code[r])[i]))
        => /\ scene_code[r] = <<>>
           /\ ~Shown(r, GenerationErrorText)
           /\ Shown(r, "Scene code generated successfully!")

\* a response of a fence line and a filler line with text before the phrase
C3_Witness ==
    \E r \in sessions :
        /\ Cleaned(r)
        /\ LET L == splitlines(raw_scene_code[r])
           IN /\ Len(L) >= 2
              /\ \A i \in 1..Len(L) : FenceOrFiller(L[i])
              /\ \E i \in 1..Len(L) : L[i][1] = Backtick
              /\ \E i \in 1..Len(L) : L[i][1] = "x"

----------------------------------------------------------------------------
(* C4 *)

\* no line of the text is a fence or filler line
NoResidual(text) ==
    \A i \in 1..Len(splitlines(text)) : ~FenceOrFiller(splitlines(text)[i])

\* C4 as claimed: cleaning the cleaner's output changes nothing, whenever the
\* output holds no fence or filler line.
C4_Idempotent ==
    \A r \in sessions :
        (Cleaned(r) /\ NoResidual(scene_code[r]))
        => better_clean_generated_code(scene_code[r]) = scene_code[r]

\* C4 amended: cleaning the cleaner's output changes nothing, whenever the
\* output holds no fence or filler line and does not end with a line break
\* (its last line is not empty).
C4_IdempotentUnlessTrailingBreak ==
    \A r \in sessions :
        (/\ Cleaned(r)
         /\ NoResidual(scene_code[r])
         /\ (scene_code[r] = <<>> \/ scene_code[r][Len(scene_code[r])] # "\n"))
        => better_clean_generated_code(scene_code[r]) = scene_code[r]

\* an output of two lines, the last not empty, that the first pass had to
\* cut out of the response
C4_Witness ==
    \E r \in sessions :
        /\ Cleaned(r)
        /\ scene_code[r] # raw_scene_code[r]
        /\ Len(splitlines(scene_code[r])) >= 2
        /\ scene_code[r][Len(scene_code[r])] # "\n"
        /\ Len(splitlines(raw_scene_code[r])) > Len(splitlines(scene_code[r]))

----------------------------------------------------------------------------
(* C5 *)

GeneratingInfo == Element("info", "Generating scene code using the Groq API...", <<>>)

\* C5: when the completion call raises, the run shows the generation error
\* (with the exception's message) and nothing after it, and halts: it never
\* opens or writes the file, which is as it was before the run, never runs
\* the renderer, and makes no second completion call.
C5_GenerationFailureHalts ==
    \A r \in sessions : Shown(r, GenerationErrorText) =>
        /\ pc[r] = "stopped"
        /\ \E e \in GroqErrors :
              ui[r] = << GeneratingInfo, Element("error", GenerationErrorText, e) >>
        /\ opened[r] = 0
        /\ file \in StaleFiles
        /\ invocations[r] = <<>>
        /\ rendered[r] = NoResult
        /\ unhandled[r] = "none"

\* the stream broke after some chunks, with an earlier run's file on disk
C5_Witness ==
    \E r \in sessions :
        /\ Shown(r, GenerationErrorText)
        /\ nchunks[r] >= 2
        /\ raw_scene_code[r] # <<>>
        /\ file.exists

----------------------------------------------------------------------------
(* C6 *)

\* C6: when opening or writing the file fails after a successful generation,
\* the run shows the file-write error, which is not the generation error, as
\* its last element and halts: the renderer is never run and neither a
\* render success nor a render failure is shown.
C6_WriteFailureHalts ==
    \A r \in sessions : Shown(r, WriteErrorText) =>
        /\ pc[r] = "stopped"
        /\ WriteErrorText # GenerationErrorText
        /\ ~Shown(r, GenerationErrorText)
        /\ Shown(r, "Scene code generated successfully!")
        /\ ui[r][Len(ui[r])].text = WriteErrorText
        /\ ui[r][Len(ui[r])].kind = "error"
        /\ Times(r, WriteErrorText) = 1
        /\ invocations[r] = <<>>
        /\ rendered[r] = NoResult
        /\ ~Shown(r, RenderSuccessText)
        /\ ~Shown(r, RenderErrorText)
        /\ ~Shown(r, "Rendering video with Manim (this may take a moment)...")

\* the write failed after the file was opened, part of the code on disk
C6_Witness ==
    \E r \in sessions :
        /\ Shown(r, WriteErrorText)
        /\ opened[r] = 1
        /\ file.content # <<>>
        /\ file.content # scene_code[r]

----------------------------------------------------------------------------
(* C7 *)

\* C7: when manim exits with a non-zero status after a successful write, the
\* run ends by showing the rendering error followed by the captured stdout
\* and the captured stderr, unaltered; it shows no render success, has run
\* the renderer once, and the file still holds the code this run wrote.
C7_RenderFailureReported ==
    \A r \in sessions : (rendered[r] # NoResult /\ rendered[r].returncode # 0) =>
        /\ pc[r] = "ended"
        /\ Len(ui[r]) >= 3
        /\ SubSeq(ui[r], Len(ui[r]) - 2, Len(ui[r])) =
              << Element("error", RenderErrorText, <<>>),
                 Element("text", "STDOUT:\n", rendered[r].stdout),
                 Element("text", "STDERR:\n", rendered[r].stderr) >>
        /\ ~Shown(r, RenderSuccessText)
        /\ Times(r, RenderErrorText) = 1
        /\ Len(invocations[r]) = 1
        /\ file = [exists |-> TRUE, content |-> scene_code[r]]
        /\ Shown(r, "Scene code written to file successfully!")

\* manim failed with output on stderr only, on a non-empty scene file
C7_Witness ==
    \E r \in sessions :
        /\ rendered[r].returncode = 1
        /\ rendered[r].stderr # <<>>
        /\ rendered[r].stdout = <<>>
        /\ file.content # <<>>

----------------------------------------------------------------------------
(* C8 *)

\* C8 as claimed: no failure of an external step, the renderer failing to
\* start included, leaves the script as an uncaught exception.
C8_NoUnhandledFailure ==
    \A r \in sessions :
        /\ unhandled[r] = "none"
        /\ pc[r] # "crashed"

----------------------------------------------------------------------------
(* C9 *)

\* the elements a run shows as its steps succeed, in the script's order
StepTexts ==
    << "Generating scene code using the Groq API...",
       "Scene code generated successfully!",
       "View Generated Scene Code",
       "Scene code written to file successfully!",
       "Rendering video with Manim (this may take a moment)...",
       RenderSuccessText >>

\* C9: the steps of one run happen in the order generate, clean, write,
\* render, report, each at most once; the renderer runs only on the file
\* holding exactly this run's cleaned complete response, and render success
\* is shown only after generation and write succeeded and manim exited 0.
C9_LinearOrder ==
    \A r \in sessions :
        /\ opened[r] <= 1
        /\ Len(invocations[r]) <= 1
        /\ LET shown == SelectSeq([i \in 1..Len(ui[r]) |-> ui[r][i].text],
                                  LAMBDA t : \E i \in 1..Len(StepTexts) : StepTexts[i] = t)
           IN /\ Len(shown) <= Len(StepTexts)
              /\ shown = SubSeq(StepTexts, 1, Len(shown))
        /\ invocations[r] # <<>> =>
              /\ opened[r] = 1
              /\ Shown(r, "Scene code written to file successfully!")
              /\ invocations[r][1] = Joined(
                    LET F == Retained(raw_scene_code[r])
                        starts == { i \in 1..Len(F) : HasCodePrefix(F[i]) }
                        k == IF starts = {} THEN 1
                             ELSE CHOOSE i \in starts : \A j \in starts : i <= j
                    IN SubSeq(F, k, Len(F)))
              /\ invocations[r][1] = scene_code[r]
              /\ file = [exists |-> TRUE, content |-> scene_code[r]]
        /\ Shown(r, RenderSuccessText) =>
              /\ pc[r] = "ended"
              /\ rendered[r].returncode = 0
              /\ Len(invocations[r]) = 1
              /\ ~Shown(r, GenerationErrorText)
              /\ ~Shown(r, WriteErrorText)
              /\ ~Shown(r, RenderErrorText)

\* a run that succeeded on a response the cleaner had to cut lines from
C9_Witness ==
    \E r \in sessions :
        /\ Shown(r, RenderSuccessText)
        /\ scene_code[r] # <<>>
        /\ Len(splitlines(raw_scene_code[r])) > Len(splitlines(scene_code[r]))
        /\ ui[r][Len(ui[r])] = Element("text", "Manim output:\n", <<"l","o","g">>)

----------------------------------------------------------------------------
(* C10 *)

\* C10: nothing guards the file between sessions: while one session stands
\* between its write and the start of its renderer, another session that
\* has its code ready can open (and so truncate) the file and then write it.
C10_NoLocking ==
    \A a, b \in sessions : (a # b /\ pc[a] = "launch") =>
        /\ pc[b] = "save" => ENABLED OpenFile(b)
        /\ pc[b] = "opened" => ENABLED WriteFile(b)

\* session 1 wrote its code, session 2 overwrote it, and session 1's
\* renderer ran on session 2's code and session 1 showed that outcome
C10_Witness ==
    /\ pc[1] = "ended"
    /\ Shown(1, "Scene code written to file successfully!")
    /\ Len(invocations[1]) = 1
    /\ invocations[1][1] = scene_code[2]
    /\ scene_code[1] # scene_code[2]
    /\ scene_code[1] # <<>>
    /\ scene_code[2] # <<>>
    /\ rendered[1] # NoResult
    /\ Shown(1, RenderSuccessText) \/ Shown(1, RenderErrorText)

============================================================================
